---- MODULE Spec2Model ----
(***************************************************************************)
(* A model of rasa_vier_cvg/cvg.py: the Rasa channel for the VIER          *)
(* Cognitive Voice Gateway (CVG).                                          *)
(*                                                                         *)
(*   CVGInput  - six webhook endpoints behind the valid_request gate; each *)
(*               turns a gateway event into a UserMessage for the engine.  *)
(*   CVGOutput - send_text_message / send_custom_json: engine actions      *)
(*               turned into HTTP calls to the gateway, whose results may  *)
(*               be fed back to the engine as new UserMessages.            *)
(*                                                                         *)
(* Python strings are TLA+ strings (Len, SubSeq and \o apply to them).     *)
(* asyncio is cooperative: the code between two awaits is one action.      *)
(***************************************************************************)
EXTENDS Integers, Sequences, FiniteSets, TLC

(***************************************************************************)
(* Module constants of cvg.py.                                             *)
(***************************************************************************)
CHANNEL_NAME == "vier-cvg"
OPERATION_PREFIX == "cvg_"
DIALOG_ID_FIELD == "dialogId"

(***************************************************************************)
(* Strings.  What Python does character by character is written here as a  *)
(* join of per-character pieces.                                           *)
(***************************************************************************)
\* s[i], 1-based
CharAt(s, i) == SubSeq(s, i, i)

\* str.startswith
StartsWith(s, p) == Len(s) >= Len(p) /\ SubSeq(s, 1, Len(p)) = p

\* s[n:] of Python (n >= 0): the empty string when n >= len(s)
DropFirst(s, n) == SubSeq(s, n + 1, Len(s))

RECURSIVE JoinRange(_, _, _)
\* pieces[lo] \o ... \o pieces[hi], for lo <= hi
JoinRange(pieces, lo, hi) ==
    IF lo = hi THEN pieces[lo]
    ELSE JoinRange(pieces, lo, (lo + hi) \div 2)
         \o JoinRange(pieces, (lo + hi) \div 2 + 1, hi)

\* "".join(pieces)
Join(pieces) == IF Len(pieces) = 0 THEN "" ELSE JoinRange(pieces, 1, Len(pieces))

\* the concatenation of a sequence of sequences
Flatten(seqs) == IF Len(seqs) = 0 THEN <<>> ELSE JoinRange(seqs, 1, Len(seqs))

\* str.replace(old, new) for a one-character old
Replace(s, old, new) ==
    Join([i \in 1..Len(s) |-> IF CharAt(s, i) = old THEN new ELSE CharAt(s, i)])

RECURSIVE RStrip(_, _)
\* str.rstrip(c) for a one-character c
RStrip(s, c) ==
    IF Len(s) > 0 /\ CharAt(s, Len(s)) = c
    THEN RStrip(SubSeq(s, 1, Len(s) - 1), c)
    ELSE s

Upper == "ABCDEFGHIJKLMNOPQRSTUVWXYZ"
Lower == "abcdefghijklmnopqrstuvwxyz"

LowerChar(c) ==
    IF \E i \in 1..Len(Upper) : CharAt(Upper, i) = c
    THEN CharAt(Lower, CHOOSE i \in 1..Len(Upper) : CharAt(Upper, i) = c)
    ELSE c

\* str.lower
LowerStr(s) == Join([i \in 1..Len(s) |-> LowerChar(CharAt(s, i))])

(***************************************************************************)
(* Bytes: bytes(s, 'utf-8') and bytes.decode('utf-8') on the printable     *)
(* ASCII range, which holds every character json.dumps emits here          *)
(* (ensure_ascii).  A byte outside it does not decode.                     *)
(***************************************************************************)
\* codes 32..95 and 97..126 (a string of the module cannot hold code 96)
AsciiLow == " !\"#$%&'()*+,-./0123456789:;<=>?@ABCDEFGHIJKLMNOPQRSTUVWXYZ[\\]^_"
AsciiHigh == "abcdefghijklmnopqrstuvwxyz{|}~"

\* chr, as a table
AsciiChars == [b \in (32..95) \cup (97..126) |->
                 IF b <= 95 THEN CharAt(AsciiLow, b - 31) ELSE CharAt(AsciiHigh, b - 96)]

\* ord, as a table
AsciiCodes == [c \in {AsciiChars[b] : b \in DOMAIN AsciiChars} |->
                 CHOOSE b \in DOMAIN AsciiChars : AsciiChars[b] = c]

Ord(c) == AsciiCodes[c]

IsAsciiByte(b) == b \in DOMAIN AsciiChars

Chr(b) == AsciiChars[b]

\* bytes(s, 'utf-8')
ToBytes(s) == [i \in 1..Len(s) |-> Ord(CharAt(s, i))]

\* bytes.decode('utf-8'): called only on bytes that decode
FromBytes(bs) == Join([i \in 1..Len(bs) |-> Chr(bs[i])])

Decodes(bs) == \A i \in 1..Len(bs) : IsAsciiByte(bs[i])

(***************************************************************************)
(* base64.b64encode / base64.b64decode (standard alphabet, '=' padding).   *)
(***************************************************************************)
B64Alphabet == "ABCDEFGHIJKLMNOPQRSTUVWXYZabcdefghijklmnopqrstuvwxyz0123456789+/"

B64Chars == [i \in 1..Len(B64Alphabet) |-> CharAt(B64Alphabet, i)]

B64Values == [c \in {B64Chars[i] : i \in DOMAIN B64Chars} |->
                (CHOOSE i \in DOMAIN B64Chars : B64Chars[i] = c) - 1]

B64Char(n) == B64Chars[n + 1]

IsB64Char(c) == c \in DOMAIN B64Values

B64Index(c) == B64Values[c]

\* the characters of a group without the padding: not what b64encode gives
B64GroupUnpadded(g) ==
    IF Len(g) = 1 THEN
        B64Char(g[1] \div 4) \o B64Char((g[1] % 4) * 16)
    ELSE IF Len(g) = 2 THEN
        B64Char(g[1] \div 4) \o B64Char((g[1] % 4) * 16 + g[2] \div 16)
        \o B64Char((g[2] % 16) * 4)
    ELSE
        B64Char(g[1] \div 4) \o B64Char((g[1] % 4) * 16 + g[2] \div 16)
        \o B64Char((g[2] % 16) * 4 + g[3] \div 64) \o B64Char(g[3] % 64)

\* the four characters of a group of 1, 2 or 3 bytes
B64Group(g) ==
    IF Len(g) = 1 THEN
        B64Char(g[1] \div 4) \o B64Char((g[1] % 4) * 16) \o "=="
    ELSE IF Len(g) = 2 THEN
        B64Char(g[1] \div 4) \o B64Char((g[1] % 4) * 16 + g[2] \div 16)
        \o B64Char((g[2] % 16) * 4) \o "="
    ELSE
        B64Char(g[1] \div 4) \o B64Char((g[1] % 4) * 16 + g[2] \div 16)
        \o B64Char((g[2] % 16) * 4 + g[3] \div 64) \o B64Char(g[3] % 64)

Min(a, b) == IF a <= b THEN a ELSE b

\* the base64 characters of the bytes bs, group by group
B64Text(bs) ==
    Join([k \in 1..((Len(bs) + 2) \div 3) |->
            B64Group(SubSeq(bs, 3 * k - 2, Min(3 * k, Len(bs))))])

\* base64.b64encode: bytes to bytes
b64encode(bs) == ToBytes(B64Text(bs))

\* b64decode without validate=True first discards what is not in the alphabet
\* (the padding character is kept)
B64Filter(s) ==
    Join([i \in 1..Len(s) |->
            IF IsB64Char(CharAt(s, i)) \/ CharAt(s, i) = "=" THEN CharAt(s, i) ELSE ""])

\* the bytes of the sextets a, b and, unless padding stands there, c and d
B64Bytes(a, b, c, d, pad3, pad4) ==
    IF pad3 THEN << a * 4 + b \div 16 >>
    ELSE IF pad4 THEN << a * 4 + b \div 16, (b % 16) * 16 + c \div 4 >>
    ELSE << a * 4 + b \div 16, (b % 16) * 16 + c \div 4, (c % 4) * 64 + d >>

\* the sextet of a character, 0 for padding
B64Sextet(c) == IF c = "=" THEN 0 ELSE B64Index(c)

\* the bytes of one quad: 4 data characters, or 3 or 2 and padding
B64Quad(q) ==
    B64Bytes(B64Sextet(CharAt(q, 1)), B64Sextet(CharAt(q, 2)), B64Sextet(CharAt(q, 3)),
             B64Sextet(CharAt(q, 4)), CharAt(q, 3) = "=", CharAt(q, 4) = "=")

\* the bytes of a string of whole quads
B64Quads(s) ==
    Flatten([k \in 1..(Len(s) \div 4) |-> B64Quad(SubSeq(s, 4 * k - 3, 4 * k))])

\* whether binascii accepts the filtered string: whole quads, padding only
\* at the end of the last quad ("Incorrect padding" otherwise)
B64WellPadded(s) ==
    /\ Len(s) % 4 = 0
    /\ \A i \in 1..Len(s) :
          CharAt(s, i) = "=" =>
              /\ i > Len(s) - 2
              /\ i % 4 \in {0, 3}
              /\ (i % 4 = 3 => CharAt(s, i + 1) = "=")

B64Decoded(f) ==
    IF B64WellPadded(f) THEN [ok |-> TRUE, bytes |-> B64Quads(f)]
    ELSE [ok |-> FALSE, bytes |-> <<>>]

\* base64.b64decode of bytes: [ok |-> FALSE] stands for binascii.Error
b64decode(bs) == B64Decoded(B64Filter(FromBytes(bs)))

(***************************************************************************)
(* JSON values: null, a string, or an object (a Python dict: its keys in   *)
(* insertion order, as a sequence of <<key, value>> pairs).                *)
(***************************************************************************)
JNull == [t |-> "null"]
JStr(s) == [t |-> "str", s |-> s]
JObj(pairs) == [t |-> "obj", m |-> pairs]
JBool(b) == [t |-> "bool", b |-> b]

IsNull(v) == v.t = "null"
IsStr(v) == v.t = "str"
IsObj(v) == v.t = "obj"

\* k in d
Has(v, k) == \E i \in 1..Len(v.m) : v.m[i][1] = k

\* d[k], for a key d has
Get(v, k) == v.m[CHOOSE i \in 1..Len(v.m) : v.m[i][1] = k][2]

\* d[k] = x: a present key keeps its place, a new one goes last
DictSet(v, k, x) ==
    IF Has(v, k)
    THEN JObj([i \in 1..Len(v.m) |-> IF v.m[i][1] = k THEN <<k, x>> ELSE v.m[i]])
    ELSE JObj(Append(v.m, <<k, x>>))

\* the escapes json.dumps applies within the printable ASCII range
EscapeStr(s) ==
    Join([i \in 1..Len(s) |->
            IF CharAt(s, i) \in {"\"", "\\"} THEN "\\" \o CharAt(s, i) ELSE CharAt(s, i)])

RECURSIVE json_dumps(_)
RECURSIVE DumpPairs(_)
DumpPairs(pairs) ==
    IF Len(pairs) = 0 THEN ""
    ELSE "\"" \o EscapeStr(pairs[1][1]) \o "\": " \o json_dumps(pairs[1][2])
         \o (IF Len(pairs) > 1 THEN ", " ELSE "") \o DumpPairs(Tail(pairs))

\* json.dumps with its default separators (", " and ": ")
json_dumps(v) ==
    IF IsNull(v) THEN "null"
    ELSE IF IsStr(v) THEN "\"" \o EscapeStr(v.s) \o "\""
    ELSE "{" \o DumpPairs(v.m) \o "}"

\* a parse result: ok, the value, and the position after it
PFail == [ok |-> FALSE, val |-> JNull, next |-> 0]
POk(v, n) == [ok |-> TRUE, val |-> v, next |-> n]

RECURSIVE SkipWs(_, _)
SkipWs(s, i) == IF i <= Len(s) /\ CharAt(s, i) = " " THEN SkipWs(s, i + 1) ELSE i

RECURSIVE ScanString(_, _, _)
\* the rest of a string literal from position j (after the opening quote);
\* of the escapes only \" \\ and \/ are read
ScanString(s, j, acc) ==
    IF j > Len(s) THEN PFail
    ELSE IF CharAt(s, j) = "\"" THEN POk(JStr(acc), j + 1)
    ELSE IF CharAt(s, j) = "\\" THEN
        IF j + 1 <= Len(s) /\ CharAt(s, j + 1) \in {"\"", "\\", "/"}
        THEN ScanString(s, j + 2, acc \o CharAt(s, j + 1))
        ELSE PFail
    ELSE ScanString(s, j + 1, acc \o CharAt(s, j))

RECURSIVE ParseValue(_, _)
RECURSIVE ParseMembers(_, _, _)

\* after a member: the end of the object, or a comma and the next member
AfterMember(s, obj, e) ==
    IF e > Len(s) THEN PFail
    ELSE IF CharAt(s, e) = "}" THEN POk(obj, e + 1)
    ELSE IF CharAt(s, e) = "," THEN ParseMembers(s, SkipWs(s, e + 1), obj)
    ELSE PFail

\* after the value of member k: it is set in the object read so far
AfterValue(s, k, val, acc) ==
    IF ~val.ok THEN PFail
    ELSE AfterMember(s, DictSet(acc, k, val.val), SkipWs(s, val.next))

\* after a key: the colon (at c) and the value
AfterKey(s, k, c, acc) ==
    IF c > Len(s) \/ CharAt(s, c) # ":" THEN PFail
    ELSE AfterValue(s, k, ParseValue(s, SkipWs(s, c + 1)), acc)

Member(s, key, acc) ==
    IF ~key.ok THEN PFail ELSE AfterKey(s, key.val.s, SkipWs(s, key.next), acc)

\* the members of an object from position i (a key is expected there)
ParseMembers(s, i, acc) ==
    IF i > Len(s) \/ CharAt(s, i) # "\"" THEN PFail
    ELSE Member(s, ScanString(s, i + 1, ""), acc)

\* an object from the position m after its brace (and whitespace)
ParseObject(s, m) ==
    IF m <= Len(s) /\ CharAt(s, m) = "}" THEN POk(JObj(<<>>), m + 1)
    ELSE ParseMembers(s, m, JObj(<<>>))

\* one JSON value at position i: null, a string or an object
ParseValue(s, i) ==
    IF i > Len(s) THEN PFail
    ELSE IF StartsWith(DropFirst(s, i - 1), "null") THEN POk(JNull, i + 4)
    ELSE IF CharAt(s, i) = "\"" THEN ScanString(s, i + 1, "")
    ELSE IF CharAt(s, i) = "{" THEN ParseObject(s, SkipWs(s, i + 1))
    ELSE PFail

\* the value read, unless text follows it ("Extra data")
WholeText(s, r) ==
    IF r.ok /\ SkipWs(s, r.next) = Len(s) + 1 THEN [ok |-> TRUE, val |-> r.val]
    ELSE [ok |-> FALSE, val |-> JNull]

\* json.loads on null, strings and objects: [ok |-> FALSE] stands for
\* json.JSONDecodeError
json_loads(s) == WholeText(s, ParseValue(s, SkipWs(s, 1)))

\* obj[k] raises: KeyError, or TypeError when obj is no dict
Raises(obj, k) == ~IsObj(obj) \/ ~Has(obj, k)

(***************************************************************************)
(* The correlation token.                                                  *)
(***************************************************************************)
\* the dataclass Recipient; [ok |-> FALSE] stands for an exception raised
\* in place of one
Recipient(dialog_id, project_token, reseller_token) ==
    [ok |-> TRUE, dialog_id |-> dialog_id, project_token |-> project_token,
     reseller_token |-> reseller_token]

NoRecipient == [ok |-> FALSE, dialog_id |-> JNull, project_token |-> JNull,
                reseller_token |-> JNull]

\* d.get(k) in place of d[k]
GetOrNone(v, k) == IF IsObj(v) /\ Has(v, k) THEN Get(v, k) ELSE JNull

\* a recipient filled as far as the fields are there: not the code's
RecipientOfJsonPartial(parsed_json) ==
    Recipient(GetOrNone(parsed_json, "dialogId"),
              GetOrNone(GetOrNone(parsed_json, "projectContext"), "projectToken"),
              GetOrNone(GetOrNone(parsed_json, "projectContext"), "resellerToken"))

\* parse_recipient_id, from parsed_json on: the three subscripts
RecipientOfJson(parsed_json) ==
    IF \/ Raises(parsed_json, "projectContext")
       \/ Raises(parsed_json, "dialogId")
       \/ Raises(Get(parsed_json, "projectContext"), "projectToken")
       \/ Raises(Get(parsed_json, "projectContext"), "resellerToken")
    THEN NoRecipient
    ELSE Recipient(Get(parsed_json, "dialogId"),
                   Get(Get(parsed_json, "projectContext"), "projectToken"),
                   Get(Get(parsed_json, "projectContext"), "resellerToken"))

RecipientOfLoaded(loaded) ==
    IF ~loaded.ok THEN NoRecipient ELSE RecipientOfJson(loaded.val)

RecipientOfDecoded(raw) ==
    IF ~raw.ok \/ ~Decodes(raw.bytes) THEN NoRecipient
    ELSE RecipientOfLoaded(json_loads(FromBytes(raw.bytes)))

\* parse_recipient_id: NoRecipient stands for any exception it raises
\* (binascii.Error, UnicodeDecodeError, JSONDecodeError, KeyError, TypeError)
parse_recipient_id(recipient_id) ==
    RecipientOfDecoded(b64decode(ToBytes(recipient_id)))

\* a sender id made of the whole event: not the code's
SenderIdOfEvent(json_body) ==
    FromBytes(b64encode(ToBytes(json_dumps(json_body))))

\* process_message_oneline, the sender id: base64 of the JSON text of
\* {dialogId, projectContext} taken from the request body
SenderId(json_body) ==
    FromBytes(b64encode(ToBytes(json_dumps(JObj(<<
        <<"dialogId", Get(json_body, "dialogId")>>,
        <<"projectContext", Get(json_body, "projectContext")>> >>)))))

\* make_metadata
make_metadata(payload) == JObj(<< <<"cvg_body", payload>> >>)

(***************************************************************************)
(* State.                                                                  *)
(*                                                                         *)
(* config  the CVGInput instance: what __init__ stores                     *)
(* reqs    the webhook requests in flight, one slot per connection         *)
(* ready   the event loop's queue of created tasks that have not yet run   *)
(* out     the call of a CVGOutput method the engine has in progress       *)
(* gateway the voice gateway: the HTTP requests it has received, and the   *)
(*         response it gives                                               *)
(* inbox   the UserMessages a CVGOutput has passed to on_message           *)
(***************************************************************************)
VARIABLES config, reqs, ready, out, gateway, inbox

vars == <<config, reqs, ready, out, gateway, inbox>>

inVars == <<config, reqs, ready>>
outVars == <<out, gateway, inbox>>

\* the number of webhook requests that can be in flight at once
MaxReq == 2

Reqs == 1..MaxReq

(***************************************************************************)
(* HTTP requests and responses of the webhook side (sanic).                *)
(***************************************************************************)
Endpoints == {"/session", "/message", "/answer", "/inactivity", "/terminated",
              "/recording"}

NoResponse == [status |-> 0, kind |-> "none", body |-> JNull]

\* sanic.response.text / .empty / .json
ResponseText(text, status) == [status |-> status, kind |-> "text", body |-> JStr(text)]
ResponseEmpty(status) == [status |-> status, kind |-> "empty", body |-> JNull]
ResponseJson(v, status) == [status |-> status, kind |-> "json", body |-> v]

\* what sanic answers when the handler raises: InvalidUsage is a 400, any
\* other exception a 500
InvalidUsage == [status |-> 400, kind |-> "error", body |-> JStr("InvalidUsage")]
ServerError == [status |-> 500, kind |-> "error", body |-> JStr("ServerError")]

\* CVGInput.__init__
CVGInput(token, start_intent, proxy, blocking_endpoints) ==
    [expected_authorization_header_value |-> "Bearer " \o token,
     proxy |-> proxy,
     start_intent |-> start_intent,
     blocking_endpoints |-> blocking_endpoints]

\* CVGInput.from_credentials, for credentials with a token: the defaults of
\* start_intent and blocking_endpoints (None is JNull)
from_credentials(token, proxy, start_intent, blocking_endpoints) ==
    CVGInput(token,
             IF IsNull(start_intent) THEN "/cvg_session" ELSE start_intent.s,
             proxy,
             IF IsNull(blocking_endpoints) THEN TRUE ELSE blocking_endpoints.b)

\* request.json of sanic: None for an empty body, the parsed body, or
\* InvalidUsage raised ([ok |-> FALSE]) for a body that does not parse
RequestJson(request) ==
    IF request.body = "" THEN [ok |-> TRUE, val |-> JNull]
    ELSE json_loads(request.body)

(***************************************************************************)
(* CVGInput.blueprint: the gate and the routes.                            *)
(***************************************************************************)
\* valid_request.decorated_function, the checks of the parsed body
BodyChecks(json_body) ==
    IF IsNull(json_body)
    THEN ResponseText("body is not valid json.", 400)
    ELSE IF Raises(json_body, "dialogId") THEN ServerError
    ELSE IF IsNull(Get(json_body, "dialogId"))
    THEN ResponseText("dialogId is required", 400)
    ELSE IF Raises(json_body, "callback") THEN ServerError
    ELSE IF IsNull(Get(json_body, "callback"))
    THEN ResponseText("callback is required", 400)
    ELSE IF Raises(json_body, "projectContext") THEN ServerError
    ELSE IF IsNull(Get(json_body, "projectContext"))
    THEN ResponseText("projectContext is required", 400)
    ELSE NoResponse

\* `json_body = request.json` and the checks of it
LoadedGate(loaded) == IF ~loaded.ok THEN InvalidUsage ELSE BodyChecks(loaded.val)

BodyGate(request) == LoadedGate(RequestJson(request))

\* a gate that looks at the content type before the authorization: not the
\* code's order
valid_request_ctype_first(request) ==
    IF request.content_type # JStr("application/json")
    THEN ResponseText("content-type is not supported. Please use application/json", 415)
    ELSE IF request.authorization # JStr(config.expected_authorization_header_value)
    THEN ResponseText("bot token is invalid!", 401)
    ELSE BodyGate(request)

\* valid_request.decorated_function up to the call of the route; NoResponse
\* when the request passes and the route is called
valid_request(request) ==
    IF request.authorization # JStr(config.expected_authorization_header_value)
    THEN ResponseText("bot token is invalid!", 401)
    ELSE IF request.content_type # JStr("application/json")
    THEN ResponseText("content-type is not supported. Please use application/json", 415)
    ELSE BodyGate(request)

\* the text a route hands to process_message_oneline; [ok |-> FALSE] when
\* evaluating it raises (in the route, outside process_message)
RouteText(ep, json_body) ==
    CASE ep = "/session" -> [ok |-> TRUE, text |-> JStr(config.start_intent)]
      [] ep = "/message" ->
            IF Raises(json_body, "text") THEN [ok |-> FALSE, text |-> JNull]
            ELSE [ok |-> TRUE, text |-> Get(json_body, "text")]
      [] ep = "/answer" ->
            IF \/ Raises(json_body, "type")
               \/ Raises(Get(json_body, "type"), "name")
               \/ ~IsStr(Get(Get(json_body, "type"), "name"))
            THEN [ok |-> FALSE, text |-> JNull]
            ELSE [ok |-> TRUE,
                  text |-> JStr("/cvg_answer_"
                                \o LowerStr(Get(Get(json_body, "type"), "name").s))]
      [] ep = "/inactivity" -> [ok |-> TRUE, text |-> JStr("/cvg_inactivity")]
      [] ep = "/terminated" -> [ok |-> TRUE, text |-> JStr("/cvg_terminated")]
      [] ep = "/recording" -> [ok |-> TRUE, text |-> JStr("/cvg_recording")]

\* the must_block argument each route passes
MustBlock(ep) == ep = "/session"

\* what the route returns once process_message_oneline has returned
RouteResponse(ep) ==
    IF ep = "/session"
    THEN ResponseJson(JObj(<< <<"action", JStr("ACCEPT")>> >>), 200)
    ELSE ResponseEmpty(204)

\* tests that heed only one of the two conditions: not the code's
AwaitOnlyMustBlock(must_block) == must_block
AwaitOnlyBlockingEndpoints(must_block) == config.blocking_endpoints

\* process_message_oneline: whether the coroutine of process_message is
\* awaited (or else handed to asyncio.create_task)
Awaited(must_block) == config.blocking_endpoints \/ must_block

\* CVGOutput.__init__
CVGOutput(callback_base_url, proxy) ==
    [base_url |-> RStrip(callback_base_url, "/"), proxy |-> proxy]

\* a process_message that strips every trailing period: not the code's
process_message_rstrip(json_body, text, sender_id) ==
    IF \/ ~IsStr(text)
       \/ Len(text.s) = 0
       \/ ~IsStr(Get(json_body, "callback"))
    THEN [ok |-> FALSE]
    ELSE [ok |-> TRUE,
          msg |-> [text |-> RStrip(text.s, "."),
                   output_channel |-> CVGOutput(Get(json_body, "callback").s,
                                                config.proxy),
                   sender_id |-> sender_id,
                   input_channel |-> CHANNEL_NAME,
                   metadata |-> make_metadata(json_body)]]

\* process_message up to `await on_new_message(user_msg)`: the UserMessage,
\* or [ok |-> FALSE] when building it raises (the except clause logs it)
process_message(json_body, text, sender_id) ==
    IF \/ ~IsStr(text)
       \/ Len(text.s) = 0
       \/ ~IsStr(Get(json_body, "callback"))
    THEN [ok |-> FALSE]
    ELSE [ok |-> TRUE,
          msg |-> [text |-> IF CharAt(text.s, Len(text.s)) = "."
                            THEN SubSeq(text.s, 1, Len(text.s) - 1)
                            ELSE text.s,
                   output_channel |-> CVGOutput(Get(json_body, "callback").s,
                                                config.proxy),
                   sender_id |-> sender_id,
                   input_channel |-> CHANNEL_NAME,
                   metadata |-> make_metadata(json_body)]]

(***************************************************************************)
(* A slot of reqs.                                                         *)
(*   handler  idle | awaiting (suspended in `await result`) | returned     *)
(*   proc     the coroutine of process_message: none | created (a task     *)
(*            that has not run yet) | delivering (suspended in `await      *)
(*            on_new_message`) | done | failed (its except clause ran)     *)
(*   msgs     the UserMessages on_new_message was called with              *)
(*   errors   the exceptions process_message caught and logged             *)
(***************************************************************************)
NoRequest == [ep |-> "", authorization |-> JNull, content_type |-> JNull, body |-> ""]

IdleSlot == [handler |-> "idle", request |-> NoRequest, resp |-> NoResponse,
             proc |-> "none", detached |-> FALSE, text |-> JNull, sender_id |-> "",
             msgs |-> <<>>, errors |-> 0]

\* the handler returns resp (or sanic answers for an exception it raised)
Respond(slot, resp) == [slot EXCEPT !.handler = "returned", !.resp = resp]

\* process_message_oneline from `result = self.process_message(...)` on:
\* the coroutine is awaited, and runs at once, or becomes a task
Started(slot, ep, text, sender_id, built) ==
    IF ~Awaited(MustBlock(ep)) THEN
        [slot EXCEPT !.handler = "returned", !.resp = RouteResponse(ep),
                     !.proc = "created", !.detached = TRUE,
                     !.text = text, !.sender_id = sender_id]
    ELSE IF built.ok THEN
        [slot EXCEPT !.handler = "awaiting", !.proc = "delivering",
                     !.text = text, !.sender_id = sender_id,
                     !.msgs = <<built.msg>>]
    ELSE
        [slot EXCEPT !.handler = "returned", !.resp = RouteResponse(ep),
                     !.proc = "failed", !.errors = 1,
                     !.text = text, !.sender_id = sender_id]

\* process_message_oneline
process_message_oneline(slot, ep, json_body, text, sender_id) ==
    Started(slot, ep, text, sender_id, process_message(json_body, text, sender_id))

\* a route: its text, then process_message_oneline
Route(slot, ep, json_body, t) ==
    IF ~t.ok THEN Respond(slot, ServerError)
    ELSE process_message_oneline(slot, ep, json_body, t.text, SenderId(json_body))

\* valid_request.decorated_function: the gate answers, or the route runs
Gate(slot, request, gate) ==
    IF gate.status # 0 THEN Respond(slot, gate)
    ELSE Route(slot, request.ep, RequestJson(request).val,
               RouteText(request.ep, RequestJson(request).val))

\* a webhook request arrives and runs to the first point where it suspends
\* or returns: the gate, the route, process_message_oneline
Webhook(i, request) ==
    /\ reqs[i].handler = "idle"
    /\ reqs' = [reqs EXCEPT ![i] =
           Gate([IdleSlot EXCEPT !.request = request], request, valid_request(request))]
    /\ ready' = IF reqs'[i].proc = "created" THEN Append(ready, i) ELSE ready
    /\ UNCHANGED <<config, outVars>>

\* the task of process_message starts
TaskRuns(slot, built) ==
    IF built.ok
    THEN [slot EXCEPT !.proc = "delivering", !.msgs = <<built.msg>>]
    ELSE [slot EXCEPT !.proc = "failed", !.errors = @ + 1]

\* the event loop runs the oldest created task: process_message up to its
\* await, or to its except clause
TaskStart ==
    /\ Len(ready) > 0
    /\ reqs' = [reqs EXCEPT ![Head(ready)] =
           TaskRuns(@, process_message(RequestJson(@.request).val, @.text, @.sender_id))]
    /\ ready' = Tail(ready)
    /\ UNCHANGED <<config, outVars>>

\* a process_message whose failure becomes the response of the request,
\* sent already or not: not the code's
EngineReturnsFailureAnswers(i, ok) ==
    /\ reqs[i].proc = "delivering"
    /\ reqs' = [reqs EXCEPT ![i] =
           [@ EXCEPT !.proc = IF ok THEN "done" ELSE "failed",
                     !.errors = IF ok THEN @ ELSE @ + 1,
                     !.handler = "returned",
                     !.resp = IF ok THEN RouteResponse(reqs[i].request.ep)
                              ELSE ServerError]]
    /\ UNCHANGED <<config, ready, outVars>>

\* process_message resumes after on_new_message: it returned (ok) or raised;
\* an awaiting route then returns its response
EngineReturns(i, ok) ==
    /\ reqs[i].proc = "delivering"
    /\ reqs' = [reqs EXCEPT ![i] =
           [@ EXCEPT !.proc = IF ok THEN "done" ELSE "failed",
                     !.errors = IF ok THEN @ ELSE @ + 1,
                     !.handler = "returned",
                     !.resp = IF reqs[i].detached THEN @
                              ELSE RouteResponse(reqs[i].request.ep)]]
    /\ UNCHANGED <<config, ready, outVars>>

\* the response is sent and the coroutine is over: the slot is free again
Close(i) ==
    /\ reqs[i].handler = "returned"
    /\ reqs[i].proc \in {"none", "done", "failed"}
    /\ reqs' = [reqs EXCEPT ![i] = IdleSlot]
    /\ UNCHANGED <<config, ready, outVars>>

(***************************************************************************)
(* CVGOutput.                                                              *)
(***************************************************************************)
\* an HTTP response of the gateway: its status and the text of its body
GatewayResponse(status, text) == [status |-> status, text |-> text]

\* _perform_request, the request aiohttp.request sends
PerformRequest(self, path, method, data) ==
    [method |-> method, url |-> self.base_url \o path, json |-> data,
     proxy |-> self.proxy]

\* a _perform_request that parses the body of every response, 204 or not:
\* not the code's
PerformResultParsesAll(res) ==
    [ok |-> json_loads(res.text).ok, status |-> res.status,
     body |-> json_loads(res.text).val]

\* _perform_request, from the response on: (status, body), or
\* [ok |-> FALSE] when res.json() raises
PerformResult(res) ==
    IF res.status = 204 THEN [ok |-> TRUE, status |-> res.status, body |-> JObj(<<>>)]
    ELSE [ok |-> json_loads(res.text).ok, status |-> res.status,
          body |-> json_loads(res.text).val]

\* a request to the path without its leading separator: not the code's
SayNoLeadingSlash(self, dialog_id, text) ==
    PerformRequest(self, "call/say", "POST",
                   JObj(<< <<DIALOG_ID_FIELD, dialog_id>>, <<"text", JStr(text)>> >>))

\* _say, the request it has _perform_request send
Say(self, dialog_id, text) ==
    PerformRequest(self, "/call/say", "POST",
                   JObj(<< <<DIALOG_ID_FIELD, dialog_id>>, <<"text", JStr(text)>> >>))

\* a UserMessage without the sender: not the code's
ResultMessageAnonymous(self, text, recipient_id, result) ==
    [text |-> text, output_channel |-> self, sender_id |-> "",
     input_channel |-> CHANNEL_NAME, metadata |-> make_metadata(result)]

\* the UserMessage the result handlers build
ResultMessage(self, text, recipient_id, result) ==
    [text |-> text, output_channel |-> self, sender_id |-> recipient_id,
     input_channel |-> CHANNEL_NAME, metadata |-> make_metadata(result)]

\* what a coroutine does up to its first await, or to its end:
\*   return   it returned           raise  it raised exc
\*   http     it sent `request` and awaits the response
\*   deliver  it called on_message(msg) and awaits it
\*   coroutine  it returned the coroutine of _perform_request(request),
\*              not awaited: the request is not sent unless somebody awaits it
Return == [kind |-> "return"]
Coroutine(request) == [kind |-> "coroutine", request |-> request]
Raise(exc) == [kind |-> "raise", exc |-> exc]
Http(request) == [kind |-> "http", request |-> request]
Deliver(msg) == [kind |-> "deliver", msg |-> msg]

\* _handle_refer_result
handle_refer_result(self, status_code, result, recipient_id) ==
    IF 200 <= status_code /\ status_code < 300 THEN Return
    ELSE Deliver(ResultMessage(self, "/cvg_refer_failure", recipient_id, result))

\* handle_bridge_result
handle_bridge_result(self, status_code, result, recipient_id) ==
    IF ~(200 <= status_code /\ status_code < 300) THEN Return
    ELSE IF Raises(result, "status") THEN Raise("KeyError")
    ELSE IF Get(result, "status") = JStr("Success")
    THEN Deliver(ResultMessage(self, "/cvg_outbound_success", recipient_id, result))
    ELSE IF Get(result, "status") = JStr("Failure")
    THEN Deliver(ResultMessage(self, "/cvg_outbound_failure", recipient_id, result))
    ELSE Return

\* _execute_operation_by_name, the body it works on: a deep copy of the
\* caller's, with the dialog id added for a call_ operation that has none
NewBody(operation_name, body, dialog_id) ==
    LET newBody == IF IsNull(body) THEN JObj(<<>>) ELSE body
    IN  IF StartsWith(operation_name, "call_") /\ ~Has(newBody, DIALOG_ID_FIELD)
        THEN DictSet(newBody, DIALOG_ID_FIELD, dialog_id)
        ELSE newBody

\* str(v) as an f-string formats it
PyStr(v) == IF IsStr(v) THEN v.s ELSE IF IsNull(v) THEN "None" ELSE json_dumps(v)

\* branches that send the request of any operation, known or not: not the
\* code's
OperationAnyName(self, operation_name, newBody, dialog_id, reseller_token) ==
    Http(PerformRequest(self, Replace(operation_name, "_", "/"), "POST", newBody))

\* _execute_operation_by_name, the branches on operation_name
Operation(self, operation_name, newBody, dialog_id, reseller_token) ==
    IF StartsWith(operation_name, "call_")
    THEN Http(PerformRequest(self, Replace(operation_name, "_", "/"), "POST", newBody))
    ELSE IF operation_name = "dialog_delete"
    THEN Coroutine(PerformRequest(self,
             "/dialog/" \o PyStr(reseller_token) \o "/" \o PyStr(dialog_id),
             "DELETE", newBody))
    ELSE IF operation_name = "dialog_data"
    THEN Coroutine(PerformRequest(self,
             "/dialog/" \o PyStr(reseller_token) \o "/" \o PyStr(dialog_id)
             \o "/data", "POST", newBody))
    ELSE Return

\* a dispatch that goes on with a token that did not decode: not the code's
ExecForAnyToken(self, operation_name, body, recipient) ==
    Operation(self, operation_name,
              NewBody(operation_name, body, recipient.dialog_id),
              recipient.dialog_id, recipient.reseller_token)

\* _execute_operation_by_name, from `recipient` on
ExecFor(self, operation_name, body, recipient) ==
    IF ~recipient.ok THEN Raise("DecodeError")
    ELSE Operation(self, operation_name,
                   NewBody(operation_name, body, recipient.dialog_id),
                   recipient.dialog_id, recipient.reseller_token)

\* _execute_operation_by_name up to its await, or to its end
ExecBegin(self, operation_name, body, recipient_id) ==
    ExecFor(self, operation_name, body, parse_recipient_id(recipient_id))

\* _execute_operation_by_name from the result of _perform_request on
ExecResume(operation_name, status_code, response_body) ==
    IF operation_name \in {"call_forward", "call_bridge"}
    THEN Raise("AttributeError")   \* self._handle_bridge_result does not exist
    ELSE IF operation_name = "call_refer"
    THEN Raise("TypeError")        \* _handle_refer_result() lacks recipient_id
    ELSE Return

\* send_text_message, from the parsed recipient on
SayTo(self, recipient, text) ==
    IF ~recipient.ok THEN Raise("DecodeError")
    ELSE Http(Say(self, recipient.dialog_id, text))

\* send_text_message up to its await
send_text_message(self, recipient_id, text) ==
    SayTo(self, parse_recipient_id(recipient_id), text)

\* send_custom_json, the test on a key of the envelope
IsOperation(key) == DropFirst(key, Len(OPERATION_PREFIX)) = OPERATION_PREFIX

RECURSIVE RunItems(_, _, _, _)

\* send_custom_json after _execute_operation_by_name ran up to o
AfterOperation(self, items, recipient_id, dropped, operation_name, o) ==
    IF o.kind = "return"
    THEN RunItems(self, Tail(items), recipient_id, dropped)
    ELSE IF o.kind = "coroutine"
    THEN RunItems(self, Tail(items), recipient_id, Append(dropped, o.request))
    ELSE [outcome |-> o, operation_name |-> operation_name,
          rest |-> Tail(items), unawaited |-> dropped]

\* send_custom_json, its loop over the items left, up to the first await:
\* the outcome, the operation that awaits, the items after it, and the
\* coroutines the operations returned (the loop drops them)
RunItems(self, items, recipient_id, dropped) ==
    IF Len(items) = 0
    THEN [outcome |-> Return, operation_name |-> "", rest |-> <<>>,
          unawaited |-> dropped]
    ELSE IF ~IsOperation(items[1][1])
    THEN RunItems(self, Tail(items), recipient_id, dropped)
    ELSE AfterOperation(self, items, recipient_id, dropped,
             DropFirst(items[1][1], Len(OPERATION_PREFIX)),
             ExecBegin(self, DropFirst(items[1][1], Len(OPERATION_PREFIX)),
                       items[1][2], recipient_id))

\* a call that is not send_custom_json: its outcome alone
Single(o, operation_name) ==
    [outcome |-> IF o.kind = "coroutine" THEN Return ELSE o,
     operation_name |-> operation_name, rest |-> <<>>,
     unawaited |-> IF o.kind = "coroutine" THEN <<o.request>> ELSE <<>>]

(***************************************************************************)
(* The call in progress.                                                   *)
(*   pc  idle | http (awaiting the gateway) | on_message (awaiting the     *)
(*       engine) | done | raised                                           *)
(*   returned  the (status, body) _perform_request last returned; ok is    *)
(*       false when it raised on a body that is not JSON                   *)
(***************************************************************************)
NoAnswer == GatewayResponse(0, "")

\* _perform_request has returned nothing yet
NoResult == [ok |-> TRUE, status |-> 0, body |-> JNull]

IdleOut == [pc |-> "idle", fn |-> "", self |-> CVGOutput("", JNull),
            args |-> [recipient_id |-> ""], operation_name |-> "", rest |-> <<>>,
            exc |-> "", unawaited |-> <<>>, returned |-> NoResult]

IdleGateway == [requests |-> <<>>, answer |-> NoAnswer]

\* where a coroutine stands after running up to the outcome o
PcOf(o) ==
    CASE o.kind = "return" -> "done"
      [] o.kind = "raise" -> "raised"
      [] o.kind = "http" -> "http"
      [] o.kind = "deliver" -> "on_message"

\* the state after the call in progress ran on, up to `run.outcome`;
\* `returned` is what _perform_request has last returned to it
ProceedWith(run, returned) ==
    /\ out' = [out EXCEPT
           !.pc = PcOf(run.outcome),
           !.returned = returned,
           !.exc = IF run.outcome.kind = "raise" THEN run.outcome.exc ELSE @,
           !.operation_name = run.operation_name,
           !.rest = run.rest,
           !.unawaited = @ \o run.unawaited]
    /\ gateway' = IF run.outcome.kind = "http"
                  THEN [gateway EXCEPT !.requests = Append(@, run.outcome.request)]
                  ELSE gateway
    /\ inbox' = IF run.outcome.kind = "deliver"
                THEN Append(inbox, run.outcome.msg) ELSE inbox

\* the same, when no request returned in the step
Proceed(run) == ProceedWith(run, out.returned)

\* the engine calls a method of the output channel `self`, which runs up to
\* `run.outcome`; the gateway will give `answer`
Call(fn, self, args, run, answer) ==
    /\ out.pc = "idle"
    /\ out' = [pc |-> PcOf(run.outcome),
               fn |-> fn, self |-> self, args |-> args,
               operation_name |-> run.operation_name, rest |-> run.rest,
               exc |-> IF run.outcome.kind = "raise" THEN run.outcome.exc ELSE "",
               unawaited |-> run.unawaited, returned |-> NoResult]
    /\ gateway' = [requests |-> IF run.outcome.kind = "http"
                                THEN <<run.outcome.request>> ELSE <<>>,
                   answer |-> answer]
    /\ inbox' = IF run.outcome.kind = "deliver" THEN <<run.outcome.msg>> ELSE <<>>
    /\ UNCHANGED inVars

SendTextMessage(self, recipient_id, text, answer) ==
    Call("send_text_message", self, [recipient_id |-> recipient_id, text |-> text],
         Single(send_text_message(self, recipient_id, text), ""), answer)

SendCustomJson(self, recipient_id, json_message, answer) ==
    Call("send_custom_json", self,
         [recipient_id |-> recipient_id, json_message |-> json_message],
         RunItems(self, json_message, recipient_id, <<>>), answer)

ExecuteOperationByName(self, operation_name, body, recipient_id, answer) ==
    Call("_execute_operation_by_name", self,
         [operation_name |-> operation_name, body |-> body,
          recipient_id |-> recipient_id],
         Single(ExecBegin(self, operation_name, body, recipient_id), operation_name),
         answer)

HandleBridgeResult(self, status_code, result, recipient_id) ==
    Call("handle_bridge_result", self,
         [status_code |-> status_code, result |-> result,
          recipient_id |-> recipient_id],
         Single(handle_bridge_result(self, status_code, result, recipient_id), ""),
         NoAnswer)

HandleReferResult(self, status_code, result, recipient_id) ==
    Call("_handle_refer_result", self,
         [status_code |-> status_code, result |-> result,
          recipient_id |-> recipient_id],
         Single(handle_refer_result(self, status_code, result, recipient_id), ""),
         NoAnswer)

\* send_custom_json goes on with its loop when the operation returned
ResumeLoop(resumed) ==
    IF resumed.kind # "return" \/ out.fn # "send_custom_json"
    THEN Single(resumed, out.operation_name)
    ELSE RunItems(out.self, out.rest, out.args.recipient_id, <<>>)

\* the caller of _perform_request resumes with its result
Resume(res) ==
    IF ~res.ok THEN Single(Raise("JSONDecodeError"), out.operation_name)
    ELSE IF out.fn = "send_text_message" THEN Single(Return, "")
    ELSE ResumeLoop(ExecResume(out.operation_name, res.status, res.body))

\* the gateway answers the request _perform_request awaits; the caller of
\* _perform_request goes on to its next await, or to its end
GatewayResponds ==
    /\ out.pc = "http"
    /\ ProceedWith(Resume(PerformResult(gateway.answer)), PerformResult(gateway.answer))
    /\ UNCHANGED inVars

\* the request fails in transport: aiohttp raises
GatewayUnreachable ==
    /\ out.pc = "http"
    /\ Proceed(Single(Raise("ClientError"), out.operation_name))
    /\ UNCHANGED inVars

\* on_message returns, or raises (the result handlers catch nothing)
OnMessageReturns(ok) ==
    /\ out.pc = "on_message"
    /\ Proceed(Single(IF ok THEN Return ELSE Raise("EngineError"), out.operation_name))
    /\ UNCHANGED inVars

\* the call is over; the engine may call again
OutReset ==
    /\ out.pc \in {"done", "raised"}
    /\ out' = IdleOut
    /\ gateway' = IdleGateway
    /\ inbox' = <<>>
    /\ UNCHANGED inVars

(***************************************************************************)
(* The inputs drawn: credentials, and webhook requests of the gateway.     *)
(***************************************************************************)
Token == "s3cret"

Credentials ==
    {from_credentials(Token, proxy, start_intent, blocking_endpoints) :
        proxy \in {JNull, JStr("http://proxy:3128")},
        start_intent \in {JNull, JStr("")},
        blocking_endpoints \in {JNull, JBool(FALSE)}}

ProjectContext(p, r) ==
    JObj(<< <<"projectToken", JStr(p)>>, <<"resellerToken", JStr(r)>> >>)

\* the three fields every event carries
Event(d, cb, pc) ==
    JObj(<< <<"dialogId", d>>, <<"callback", cb>>, <<"projectContext", pc>> >>)

GoodEvent == Event(JStr("d1"), JStr("http://gw/v1/"), ProjectContext("p1", "r1"))

\* an event with more fields
With(ev, k, v) == DictSet(ev, k, v)

\* an event without one of its fields
Without(ev, k) == JObj(SelectSeq(ev.m, LAMBDA kv : kv[1] # k))

TypeName(n) == JObj(<< <<"name", JStr(n)>> >>)

BodyValues ==
    {GoodEvent,
     With(With(GoodEvent, "text", JStr("Hello.")), "type", TypeName("DTMF")),
     With(GoodEvent, "text", JStr("Hello")),
     With(GoodEvent, "text", JStr("Hello..")),
     With(GoodEvent, "text", JStr("")),
     With(GoodEvent, "text", JNull),
     With(GoodEvent, "type", JObj(<<>>)),
     With(GoodEvent, "type", JObj(<< <<"name", JNull>> >>)),
     Without(GoodEvent, "dialogId"),
     Without(GoodEvent, "callback"),
     Without(GoodEvent, "projectContext"),
     With(GoodEvent, "dialogId", JNull),
     With(GoodEvent, "callback", JNull),
     With(GoodEvent, "projectContext", JNull),
     With(GoodEvent, "projectContext", JObj(<< <<"projectToken", JStr("p1")>> >>)),
     JStr("d1")}

\* request bodies: JSON texts, no body, and texts that are not JSON
Bodies ==
    {json_dumps(v) : v \in BodyValues} \cup {"", "null", "{\"dialogId\": \"d1\""}

Authorizations == {JNull, JStr("Bearer " \o Token), JStr("Bearer wrong")}

ContentTypes == {JNull, JStr("application/json"),
                 JStr("application/json; charset=utf-8")}

Requests ==
    {[ep |-> ep, authorization |-> a, content_type |-> c, body |-> b] :
        ep \in Endpoints, a \in Authorizations, c \in ContentTypes, b \in Bodies}

(***************************************************************************)
(* The webhook side, one request at a time, over every request drawn.      *)
(***************************************************************************)
Init ==
    /\ config \in Credentials
    /\ reqs = [i \in Reqs |-> IdleSlot]
    /\ ready = <<>>
    /\ out = IdleOut
    /\ gateway = IdleGateway
    /\ inbox = <<>>

Next ==
    \/ \E request \in Requests : Webhook(1, request)
    \/ TaskStart
    \/ \E ok \in BOOLEAN : EngineReturns(1, ok)
    \/ Close(1)

Spec == Init /\ [][Next]_vars

(***************************************************************************)
(* The webhook side under concurrency: MaxReq requests in flight, each a   *)
(* request that passes the gate, for one of two dialogs.                   *)
(***************************************************************************)
OtherEvent == Event(JStr("d2"), JStr("http://gw2"), ProjectContext("p2", "r2"))

\* a request that passes the gate
GoodRequest(ep, ev) ==
    [ep |-> ep, authorization |-> JStr("Bearer " \o Token),
     content_type |-> JStr("application/json"),
     body |-> json_dumps(With(ev, "text", JStr("Hello.")))]

ConcRequests ==
    {GoodRequest(ep, GoodEvent) : ep \in {"/session", "/message", "/inactivity"}}
    \cup {GoodRequest("/inactivity", OtherEvent)}

InitConc ==
    /\ config \in {from_credentials(Token, JNull, JNull, b) : b \in {JNull, JBool(FALSE)}}
    /\ reqs = [i \in Reqs |-> IdleSlot]
    /\ ready = <<>>
    /\ out = IdleOut
    /\ gateway = IdleGateway
    /\ inbox = <<>>

NextConc ==
    \/ \E i \in Reqs, request \in ConcRequests : Webhook(i, request)
    \/ TaskStart
    \/ \E i \in Reqs, ok \in BOOLEAN : EngineReturns(i, ok)
    \/ \E i \in Reqs : Close(i)

SpecConc == InitConc /\ [][NextConc]_vars

(***************************************************************************)
(* The output channel: the calls the engine makes on a CVGOutput, one at a *)
(* time, and the gateway's answers.                                        *)
(***************************************************************************)
\* the most operations an envelope of send_custom_json holds
MaxOps == 2

\* the channel process_message builds for a webhook of the gateway
Channels == {CVGOutput("http://gw/v1/", config.proxy)}

\* sender ids the webhook side made, and strings it cannot have made: no
\* base64, base64 of no JSON, JSON without resellerToken
GoodRecipientIds == {SenderId(GoodEvent)}

BadRecipientIds ==
    {"abc",
     FromBytes(b64encode(ToBytes("hello"))),
     SenderId(With(GoodEvent, "projectContext",
                   JObj(<< <<"projectToken", JStr("p1")>> >>)))}

RecipientIds == GoodRecipientIds \cup BadRecipientIds

Texts == {"Hi there."}

StatusBody(st) == JObj(<< <<"status", JStr(st)>> >>)

GatewayAnswers ==
    {GatewayResponse(200, json_dumps(StatusBody("Success"))),
     GatewayResponse(200, json_dumps(StatusBody("Failure"))),
     GatewayResponse(200, json_dumps(StatusBody("Unknown"))),
     GatewayResponse(299, json_dumps(StatusBody("Success"))),
     GatewayResponse(204, ""),
     GatewayResponse(300, json_dumps(StatusBody("Success"))),
     GatewayResponse(500, json_dumps(StatusBody("Failure"))),
     GatewayResponse(404, "Not Found")}

SayBody == JObj(<< <<"text", JStr("Hi")>> >>)
BridgeBody == JObj(<< <<"dialogId", JStr("d9")>>, <<"destinationNumber", JStr("+49")>> >>)

\* operation names _execute_operation_by_name is called with, and bodies
OperationNames ==
    {"call_say", "call_forward", "call_bridge", "call_refer", "call_play_x",
     "dialog_delete", "dialog_data", "dialog_abort", "cvg_", "sms_send"}

OperationBodies == {JNull, SayBody, BridgeBody}

\* the items of an envelope: marked keys, an unmarked key, a key marked
\* twice, and the one key the test of send_custom_json lets through
Items ==
    {<<"cvg_call_say", SayBody>>, <<"cvg_call_bridge", BridgeBody>>,
     <<"cvg_call_refer", JNull>>, <<"cvg_dialog_delete", JNull>>,
     <<"call_say", SayBody>>, <<"cvg_cvg_call_say", SayBody>>,
     <<"cvg_cvg_", JNull>>}

\* the envelopes: up to MaxOps items with distinct keys (a dict), in order
Envelopes ==
    UNION {{e \in [1..n -> Items] :
               \A a, b \in 1..n : a # b => e[a][1] # e[b][1]} : n \in 0..MaxOps}

ResultStatuses == {199, 200, 204, 299, 300, 500}

Results == {StatusBody("Success"), StatusBody("Failure"), StatusBody("Unknown"),
            JObj(<<>>)}

InitOut ==
    /\ config \in {from_credentials(Token, proxy, JNull, JNull) :
                       proxy \in {JNull, JStr("http://proxy:3128")}}
    /\ reqs = [i \in Reqs |-> IdleSlot]
    /\ ready = <<>>
    /\ out = IdleOut
    /\ gateway = IdleGateway
    /\ inbox = <<>>

NextOut ==
    \/ \E self \in Channels, r \in RecipientIds, text \in Texts, a \in GatewayAnswers :
          SendTextMessage(self, r, text, a)
    \/ \E self \in Channels, r \in RecipientIds, e \in Envelopes, a \in GatewayAnswers :
          SendCustomJson(self, r, e, a)
    \/ \E self \in Channels, r \in RecipientIds, op \in OperationNames,
          body \in OperationBodies, a \in GatewayAnswers :
          ExecuteOperationByName(self, op, body, r, a)
    \/ \E self \in Channels, r \in GoodRecipientIds, st \in ResultStatuses,
          result \in Results :
          \/ HandleBridgeResult(self, st, result, r)
          \/ HandleReferResult(self, st, result, r)
    \/ GatewayResponds
    \/ GatewayUnreachable
    \/ \E ok \in BOOLEAN : OnMessageReturns(ok)
    \/ OutReset

SpecOut == InitOut /\ [][NextOut]_vars

(***************************************************************************)
(* What the properties below speak of, stated without the gate's code.     *)
(***************************************************************************)
\* the request carries exactly the configured bearer value
Authorized(request) ==
    request.authorization = JStr("Bearer " \o Token)

\* the request's content type is exactly application/json
JsonType(request) == request.content_type = JStr("application/json")

RequiredFields == {"dialogId", "callback", "projectContext"}

\* the body is a JSON object that holds the three fields, none of them null
WellFormed(request) ==
    /\ json_loads(request.body).ok
    /\ IsObj(json_loads(request.body).val)
    /\ \A k \in RequiredFields :
          /\ Has(json_loads(request.body).val, k)
          /\ ~IsNull(Get(json_loads(request.body).val, k))

\* the body does not parse, or parses to an object that lacks a field
LacksField(request) ==
    \/ ~json_loads(request.body).ok
    \/ /\ IsObj(json_loads(request.body).val)
       /\ \E k \in RequiredFields : ~Has(json_loads(request.body).val, k)

PassesGates(request) ==
    Authorized(request) /\ JsonType(request) /\ WellFormed(request)

\* nothing of request i reached the engine, and no gateway call was made
NothingDone(i) ==
    /\ reqs[i].msgs = <<>>
    /\ reqs[i].proc = "none"
    /\ gateway.requests = <<>>
    /\ inbox = <<>>

\* the texts of the messages the output channel passed to the engine
InboxTexts == [k \in 1..Len(inbox) |-> inbox[k].text]

\* the HTTP status is in the success range
Is2xx(status) == 200 <= status /\ status < 300

(***************************************************************************)
(* C1 - the authorization and content-type gates.                          *)
(***************************************************************************)
\* C1: on every endpoint a request without exactly the configured bearer
\* value is answered 401 whatever its content type and body, and one with
\* the bearer value but another content type than application/json is
\* answered 415 whatever its body; in both cases no message reaches the
\* engine and no gateway call is made.
C1_GateRejects ==
    \A i \in Reqs :
        reqs[i].handler # "idle" =>
            /\ ~Authorized(reqs[i].request) =>
                  /\ reqs[i].handler = "returned"
                  /\ reqs[i].resp.status = 401
                  /\ NothingDone(i)
            /\ (Authorized(reqs[i].request) /\ ~JsonType(reqs[i].request)) =>
                  /\ reqs[i].handler = "returned"
                  /\ reqs[i].resp.status = 415
                  /\ NothingDone(i)

\* a request with a wrong bearer value, a foreign content type and a body
\* that would pass was answered 401
C1_Witness ==
    \E i \in Reqs :
        /\ reqs[i].resp.status = 401
        /\ reqs[i].request.ep = "/message"
        /\ reqs[i].request.authorization = JStr("Bearer wrong")
        /\ ~JsonType(reqs[i].request)
        /\ WellFormed(reqs[i].request)

(***************************************************************************)
(* C2 - the body gate.                                                     *)
(***************************************************************************)
\* C2: an authenticated JSON request whose body does not parse, or lacks
\* dialogId, callback or projectContext (the key is missing), is answered
\* 400, and no message reaches the engine.
C2_AbsentFieldIs400 ==
    \A i \in Reqs :
        (/\ reqs[i].handler # "idle"
         /\ Authorized(reqs[i].request)
         /\ JsonType(reqs[i].request)
         /\ LacksField(reqs[i].request)) =>
            /\ reqs[i].resp.status = 400
            /\ NothingDone(i)

(***************************************************************************)
(* C3 - /session answers ACCEPT after the delivery was awaited.            *)
(***************************************************************************)
\* C3: a /session webhook that passes the gates is answered exactly 200
\* {"action": "ACCEPT"}, and only once the delivery of the start intent has
\* been awaited to its end, whatever blocking_endpoints is; a delivery that
\* failed has been logged by the time the response returns.
C3_SessionAwaitsDelivery ==
    \A i \in Reqs :
        (/\ reqs[i].handler # "idle"
         /\ reqs[i].request.ep = "/session"
         /\ PassesGates(reqs[i].request)) =>
            /\ ~reqs[i].detached
            /\ reqs[i].handler = "awaiting" =>
                  reqs[i].proc = "delivering" /\ reqs[i].resp = NoResponse
            /\ reqs[i].handler = "returned" =>
                  /\ reqs[i].resp.status = 200
                  /\ reqs[i].resp.kind = "json"
                  /\ reqs[i].resp.body = JObj(<< <<"action", JStr("ACCEPT")>> >>)
                  /\ reqs[i].proc \in {"done", "failed"}
                  /\ reqs[i].proc = "failed" => reqs[i].errors > 0

\* with blocking_endpoints false, /session has answered 200 after a delivery
\* that the engine failed
C3_Witness ==
    \E i \in Reqs :
        /\ ~config.blocking_endpoints
        /\ reqs[i].request.ep = "/session"
        /\ reqs[i].resp.status = 200
        /\ Len(reqs[i].msgs) = 1
        /\ reqs[i].proc = "failed"
        /\ reqs[i].errors = 1

(***************************************************************************)
(* C4 - the delivery mode of the other endpoints.                          *)
(***************************************************************************)
\* C4: on the endpoints other than /session, with blocking_endpoints true
\* the 204 is returned only after the delivery has finished; with
\* blocking_endpoints false the delivery is a detached task and the handler
\* returns its 204 at once, without waiting for it.
C4_DeliveryMode ==
    \A i \in Reqs :
        (/\ reqs[i].handler # "idle"
         /\ reqs[i].request.ep # "/session"
         /\ PassesGates(reqs[i].request)) =>
            IF config.blocking_endpoints
            THEN /\ ~reqs[i].detached
                 /\ reqs[i].resp.status # 0 =>
                       reqs[i].resp.status = 204 /\ reqs[i].proc \in {"done", "failed"}
            ELSE /\ reqs[i].detached
                 /\ reqs[i].handler = "returned"
                 /\ reqs[i].resp = ResponseEmpty(204)

\* with blocking_endpoints false, /inactivity has answered 204 while its
\* delivery is still pending
C4_Witness ==
    \E i \in Reqs :
        /\ ~config.blocking_endpoints
        /\ reqs[i].request.ep = "/inactivity"
        /\ reqs[i].resp.status = 204
        /\ reqs[i].proc = "delivering"

(***************************************************************************)
(* C5 - internal errors never surface.                                     *)
(***************************************************************************)
\* C5: for a webhook that passes the gates, whatever is raised while the
\* message is built (reading text or type.name included) or delivered is
\* caught: the answer is never an error response, and it is 204 on the
\* endpoints other than /session.
C5_NeverSurfacesError ==
    \A i \in Reqs :
        (/\ reqs[i].handler = "returned"
         /\ PassesGates(reqs[i].request)) =>
            /\ reqs[i].resp.kind # "error"
            /\ reqs[i].request.ep # "/session" => reqs[i].resp.status = 204

(***************************************************************************)
(* C6 - send_text_message.                                                 *)
(***************************************************************************)
\* C6: send_text_message with a token the webhook side made issues exactly
\* one gateway request, a POST to the callback base URL + /call/say with
\* the body {dialogId: the token's dialog id, text: the text}, and passes
\* no message to the engine; with any other token it raises and issues no
\* gateway request.
C6_SayRequest ==
    out.fn = "send_text_message" =>
        /\ inbox = <<>>
        /\ IF out.args.recipient_id \in GoodRecipientIds
           THEN /\ Len(gateway.requests) = 1
                /\ gateway.requests[1].method = "POST"
                /\ gateway.requests[1].url = "http://gw/v1" \o "/call/say"
                /\ gateway.requests[1].json =
                       JObj(<< <<"dialogId", JStr("d1")>>,
                               <<"text", JStr(out.args.text)>> >>)
           ELSE /\ out.pc = "raised"
                /\ gateway.requests = <<>>

\* send_text_message with a good token is over after the gateway answered
C6_Witness ==
    /\ out.fn = "send_text_message"
    /\ out.args.recipient_id \in GoodRecipientIds
    /\ out.pc = "done"
    /\ Len(gateway.requests) = 1

(***************************************************************************)
(* C7 - the result of a bridge sent through send_custom_json.              *)
(***************************************************************************)
\* the gateway's answer is JSON with the given status field
AnswerStatusIs(st) == gateway.answer.text = json_dumps(StatusBody(st))

\* C7: after send_custom_json({cvg_call_bridge: body}), a 2xx answer with
\* status "Success" has given the engine exactly one /cvg_outbound_success
\* message, one with status "Failure" one /cvg_outbound_failure message,
\* any other status value none, and a non-2xx answer none.
C7_BridgeResult ==
    (/\ out.fn = "send_custom_json"
     /\ out.args.recipient_id \in GoodRecipientIds
     /\ out.args.json_message = << <<"cvg_call_bridge", BridgeBody>> >>
     /\ out.pc = "done") =>
        InboxTexts =
            IF Is2xx(gateway.answer.status) /\ AnswerStatusIs("Success")
            THEN <<"/cvg_outbound_success">>
            ELSE IF Is2xx(gateway.answer.status) /\ AnswerStatusIs("Failure")
            THEN <<"/cvg_outbound_failure">>
            ELSE <<>>

(***************************************************************************)
(* C8 - the result of call_refer.                                          *)
(***************************************************************************)
\* the call in progress is over, and the gateway gave its answer in JSON
\* (the call did not end on a failed transport or an unreadable body)
OverAfterAnswer ==
    /\ out.pc \in {"done", "raised"}
    /\ out.exc \notin {"ClientError", "JSONDecodeError", "EngineError"}

\* C8: after call_refer was dispatched and answered, a status in 200..299
\* has given the engine no message, and any other status exactly one
\* /cvg_refer_failure message, with the operation's token as sender and
\* the response body as metadata.
C8_ReferResult ==
    (/\ out.fn = "_execute_operation_by_name"
     /\ out.args.operation_name = "call_refer"
     /\ out.args.recipient_id \in GoodRecipientIds
     /\ OverAfterAnswer) =>
        IF Is2xx(gateway.answer.status)
        THEN inbox = <<>>
        ELSE /\ Len(inbox) = 1
             /\ inbox[1].text = "/cvg_refer_failure"
             /\ inbox[1].sender_id = out.args.recipient_id
             /\ inbox[1].metadata =
                    JObj(<< <<"cvg_body", json_loads(gateway.answer.text).val>> >>)

(***************************************************************************)
(* C9 - the keys of an envelope.                                           *)
(***************************************************************************)
\* the number of items of the envelope e whose key is k
CountKey(e, k) == Cardinality({n \in 1..Len(e) : e[n][1] = k})

\* C9: send_custom_json executes every operation whose key carries the
\* marker cvg_ (cvg_call_say), in the order of the keys, and a key without
\* the marker (call_say) causes no gateway call: once the call is over, an
\* envelope of such keys has caused one gateway call per marked key.
C9_MarkedKeysRun ==
    (/\ out.fn = "send_custom_json"
     /\ out.args.recipient_id \in GoodRecipientIds
     /\ \A n \in 1..Len(out.args.json_message) :
           out.args.json_message[n][1] \in {"cvg_call_say", "call_say"}
     /\ out.pc = "done") =>
        Len(gateway.requests) = CountKey(out.args.json_message, "cvg_call_say")

(***************************************************************************)
(* C10 - the request of a call_ operation.                                 *)
(***************************************************************************)
\* the body a call_ operation is to send for the caller's body
ExpectedBody(body) ==
    IF IsNull(body) THEN JObj(<< <<"dialogId", JStr("d1")>> >>)
    ELSE IF Has(body, "dialogId") THEN body
    ELSE JObj(body.m \o << <<"dialogId", JStr("d1")>> >>)

\* C10: dispatching call_<action> issues exactly one POST to the callback
\* base URL + /call/<action>, with the leading path separator; its body is
\* the caller's (an empty object when none was given), with the token's
\* dialog id under dialogId unless the caller gave one.
C10_CallRequest ==
    (/\ out.fn = "_execute_operation_by_name"
     /\ out.args.operation_name \in {"call_say", "call_forward", "call_bridge",
                                     "call_refer"}
     /\ out.args.recipient_id \in GoodRecipientIds) =>
        /\ Len(gateway.requests) = 1
        /\ gateway.requests[1].method = "POST"
        /\ gateway.requests[1].json = ExpectedBody(out.args.body)
        /\ gateway.requests[1].url =
               "http://gw/v1" \o "/call/" \o DropFirst(out.args.operation_name, 5)

(***************************************************************************)
(* C11 - the dialog_ operations.                                           *)
(***************************************************************************)
\* the methods and URLs of the requests the gateway has received
RequestLines == [k \in 1..Len(gateway.requests) |->
                    <<gateway.requests[k].method, gateway.requests[k].url>>]

\* C11: once the dispatch of dialog_delete is over, one DELETE request to
\* /dialog/{reseller_token}/{dialog_id} has been issued, and once that of
\* dialog_data is over, one POST to /dialog/{reseller_token}/{dialog_id}/data,
\* with the tokens of the correlation token; any other dialog_ operation
\* issues no request and raises nothing.
C11_DialogRequests ==
    (/\ out.fn = "_execute_operation_by_name"
     /\ out.args.recipient_id \in GoodRecipientIds
     /\ StartsWith(out.args.operation_name, "dialog_")
     /\ out.pc \in {"done", "raised"}) =>
        /\ out.pc = "done"
        /\ RequestLines =
              IF out.args.operation_name = "dialog_delete"
              THEN << <<"DELETE", "http://gw/v1" \o "/dialog/r1/d1">> >>
              ELSE IF out.args.operation_name = "dialog_data"
              THEN << <<"POST", "http://gw/v1" \o "/dialog/r1/d1/data">> >>
              ELSE <<>>

(***************************************************************************)
(* C12 - operations outside the two namespaces.                            *)
(***************************************************************************)
\* the operation name is in neither the call_ nor the dialog_ namespace
UnknownNamespace(operation_name) ==
    /\ SubSeq(operation_name, 1, Min(5, Len(operation_name))) # "call_"
    /\ SubSeq(operation_name, 1, Min(7, Len(operation_name))) # "dialog_"

\* C12: an operation whose name, the marker removed, starts with neither
\* call_ nor dialog_, dispatched with a token that decodes, makes no gateway
\* call, gives the engine no message and raises nothing: the dispatch just
\* ends. (An envelope whose one key is cvg_cvg_ dispatches the name cvg_.)
C12_UnknownNamespace ==
    (/\ out.args.recipient_id \in GoodRecipientIds
     /\ \/ /\ out.fn = "_execute_operation_by_name"
           /\ UnknownNamespace(out.args.operation_name)
        \/ /\ out.fn = "send_custom_json"
           /\ out.args.json_message = << <<"cvg_cvg_", JNull>> >>) =>
        /\ out.pc = "done"
        /\ gateway.requests = <<>>
        /\ out.unawaited = <<>>
        /\ inbox = <<>>

\* the dispatch of sms_send is over
C12_Witness ==
    /\ out.fn = "_execute_operation_by_name"
    /\ out.args.operation_name = "sms_send"
    /\ out.args.recipient_id \in GoodRecipientIds
    /\ out.pc = "done"

(***************************************************************************)
(* C13 - a token that does not decode.                                     *)
(***************************************************************************)
\* C13: a dispatch whose correlation token does not decode ends with an
\* error and issues no gateway request, whatever the operation; in
\* send_custom_json the error ends the call, and the items after the
\* operation are left unexecuted.
C13_DecodeAborts ==
    out.args.recipient_id \in BadRecipientIds =>
        /\ out.fn = "_execute_operation_by_name" =>
              /\ out.pc = "raised"
              /\ out.exc = "DecodeError"
              /\ gateway.requests = <<>>
              /\ out.unawaited = <<>>
              /\ inbox = <<>>
        /\ out.fn = "send_custom_json" =>
              /\ gateway.requests = <<>>
              /\ out.unawaited = <<>>
              /\ inbox = <<>>
              /\ \A n \in 1..Len(out.args.json_message) :
                    out.args.json_message[n][1] = "cvg_cvg_" =>
                        /\ out.pc = "raised"
                        /\ out.exc = "DecodeError"
                        /\ out.rest = SubSeq(out.args.json_message, n + 1,
                                             Len(out.args.json_message))

\* send_custom_json was aborted at its first item, with one more to go
C13_Witness ==
    /\ out.fn = "send_custom_json"
    /\ out.args.recipient_id = "abc"
    /\ Len(out.args.json_message) = 2
    /\ out.args.json_message[1][1] = "cvg_cvg_"
    /\ out.pc = "raised"
    /\ Len(out.rest) = 1

(***************************************************************************)
(* C16 - the gateway client.                                               *)
(***************************************************************************)
\* the gateway's answer has been received by the call in progress
Answered ==
    /\ out.fn \in {"send_text_message", "_execute_operation_by_name"}
    /\ Len(gateway.requests) > 0
    /\ out.pc \in {"done", "raised"}
    /\ out.exc # "ClientError"

\* C16: a call of the gateway client makes one HTTP attempt, whatever the
\* status or the error; for a 204 it returns (204, {}) and does not parse
\* the body; for any other status it returns the status and the parsed
\* JSON body, and it raises when the body is not JSON.
C16_OneAttempt ==
    /\ out.fn \in {"send_text_message", "_execute_operation_by_name"} =>
          Len(gateway.requests) <= 1
    /\ Answered =>
          /\ Len(gateway.requests) = 1
          /\ out.returned.status = gateway.answer.status
          /\ gateway.answer.status = 204 =>
                /\ out.returned.ok
                /\ out.returned.body = JObj(<<>>)
          /\ \A st \in {"Success", "Failure", "Unknown"} :
                (gateway.answer.status # 204 /\ AnswerStatusIs(st)) =>
                    /\ out.returned.ok
                    /\ out.returned.body = JObj(<< <<"status", JStr(st)>> >>)
          /\ (gateway.answer.status # 204 /\ gateway.answer.text = "Not Found") =>
                /\ ~out.returned.ok
                /\ out.pc = "raised"
                /\ out.exc = "JSONDecodeError"

\* send_text_message is over after a 204 whose body is no JSON text
C16_Witness ==
    /\ out.fn = "send_text_message"
    /\ out.pc = "done"
    /\ gateway.answer = GatewayResponse(204, "")
    /\ out.returned.status = 204
    /\ Len(gateway.requests) = 1

(***************************************************************************)
(* The loop through the engine: a webhook delivers a message, and the      *)
(* engine answers it through the message's output channel, with the        *)
(* message's sender id as recipient_id; the engine may also call with a    *)
(* recipient_id that no webhook made.                                      *)
(***************************************************************************)
\* dialog ids and tokens with the sender ids CPython makes of them:
\* base64.b64encode(bytes(json.dumps({"dialogId": d, "projectContext":
\* {"projectToken": p, "resellerToken": r}}), 'utf-8')).decode('utf-8')
Triples ==
    {[d |-> "d1", p |-> "p1", r |-> "r1", token |->
        "eyJkaWFsb2dJZCI6ICJkMSIsICJwcm9qZWN0Q29udGV4dCI6IHsicHJvamVjdFRva2VuIjogInAxIiwgInJlc2VsbGVyVG9rZW4iOiAicjEifX0="],
     [d |-> "a\"b", p |-> "p\\q", r |-> "r/s", token |->
        "eyJkaWFsb2dJZCI6ICJhXCJiIiwgInByb2plY3RDb250ZXh0IjogeyJwcm9qZWN0VG9rZW4iOiAicFxccSIsICJyZXNlbGxlclRva2VuIjogInIvcyJ9fQ=="],
     [d |-> "", p |-> "p", r |-> "res", token |->
        "eyJkaWFsb2dJZCI6ICIiLCAicHJvamVjdENvbnRleHQiOiB7InByb2plY3RUb2tlbiI6ICJwIiwgInJlc2VsbGVyVG9rZW4iOiAicmVzIn19"],
     [d |-> "dialog-42", p |-> "p1", r |-> "r", token |->
        "eyJkaWFsb2dJZCI6ICJkaWFsb2ctNDIiLCAicHJvamVjdENvbnRleHQiOiB7InByb2plY3RUb2tlbiI6ICJwMSIsICJyZXNlbGxlclRva2VuIjogInIifX0="]}

\* the webhook of a triple
TripleRequest(t) ==
    GoodRequest("/inactivity",
                Event(JStr(t.d), JStr("http://gw/v1/"), ProjectContext(t.p, t.r)))

\* project contexts that pass the gate without holding both tokens, with
\* the sender id CPython makes of dialog d1 and each
PartialContexts ==
    {[pc |-> JObj(<< <<"projectToken", JStr("p1")>> >>), token |->
        "eyJkaWFsb2dJZCI6ICJkMSIsICJwcm9qZWN0Q29udGV4dCI6IHsicHJvamVjdFRva2VuIjogInAxIn19"],
     [pc |-> JObj(<< <<"resellerToken", JStr("r1")>> >>), token |->
        "eyJkaWFsb2dJZCI6ICJkMSIsICJwcm9qZWN0Q29udGV4dCI6IHsicmVzZWxsZXJUb2tlbiI6ICJyMSJ9fQ=="],
     [pc |-> JObj(<<>>), token |->
        "eyJkaWFsb2dJZCI6ICJkMSIsICJwcm9qZWN0Q29udGV4dCI6IHt9fQ=="],
     [pc |-> JStr("ctx"), token |->
        "eyJkaWFsb2dJZCI6ICJkMSIsICJwcm9qZWN0Q29udGV4dCI6ICJjdHgifQ=="]}

\* the webhook of dialog d1 with such a project context
PartialRequest(c) ==
    GoodRequest("/inactivity", Event(JStr("d1"), JStr("http://gw/v1/"), c.pc))

\* recipient ids no webhook made: no base64, base64 of no JSON, JSON
\* without dialogId, JSON without projectContext
ForeignTokens ==
    {"abc",
     "aGVsbG8=",
     "eyJwcm9qZWN0Q29udGV4dCI6IHsicHJvamVjdFRva2VuIjogInAxIiwgInJlc2VsbGVyVG9rZW4iOiAicjEifX0=",
     "eyJkaWFsb2dJZCI6ICJkMSJ9"}

LoopRequests ==
    {TripleRequest(t) : t \in Triples} \cup {PartialRequest(c) : c \in PartialContexts}

LoopAnswers == {GatewayResponse(200, json_dumps(StatusBody("Success"))),
                GatewayResponse(204, "")}

InitLoop ==
    /\ config \in {from_credentials(Token, JNull, JNull, b) : b \in {JNull, JBool(FALSE)}}
    /\ reqs = [i \in Reqs |-> IdleSlot]
    /\ ready = <<>>
    /\ out = IdleOut
    /\ gateway = IdleGateway
    /\ inbox = <<>>

NextLoop ==
    \/ \E request \in LoopRequests : Webhook(1, request)
    \/ TaskStart
    \/ \E ok \in BOOLEAN : EngineReturns(1, ok)
    \/ Close(1)
    \/ \E a \in LoopAnswers :
          /\ Len(reqs[1].msgs) > 0
          /\ SendTextMessage(reqs[1].msgs[1].output_channel,
                             reqs[1].msgs[1].sender_id, "Hi there.", a)
    \/ \E r \in ForeignTokens, a \in LoopAnswers :
          SendTextMessage(CVGOutput("http://gw/v1/", config.proxy), r, "Hi there.", a)
    \/ GatewayResponds
    \/ GatewayUnreachable
    \/ OutReset

SpecLoop == InitLoop /\ [][NextLoop]_vars

(***************************************************************************)
(* C14 - the round trip of the correlation token.                          *)
(***************************************************************************)
\* C14: parse_recipient_id of the sender id the webhook side makes of
\* {dialogId, projectContext {projectToken, resellerToken}} gives back that
\* dialog id, project token and reseller token: the sender id of a webhook
\* is the one CPython makes, it decodes to the three values, and a
\* send_text_message to it addresses that dialog id.
C14_RoundTrip ==
    \A t \in Triples :
        /\ parse_recipient_id(t.token) = Recipient(JStr(t.d), JStr(t.p), JStr(t.r))
        /\ \A i \in Reqs :
              (reqs[i].request = TripleRequest(t) /\ reqs[i].sender_id # "") =>
                  /\ reqs[i].sender_id = t.token
                  /\ parse_recipient_id(reqs[i].sender_id) =
                         Recipient(JStr(t.d), JStr(t.p), JStr(t.r))
                  /\ \A k \in 1..Len(reqs[i].msgs) : reqs[i].msgs[k].sender_id = t.token
        /\ (out.fn = "send_text_message" /\ out.args.recipient_id = t.token) =>
              /\ Len(gateway.requests) = 1
              /\ gateway.requests[1].json =
                     JObj(<< <<"dialogId", JStr(t.d)>>, <<"text", JStr("Hi there.")>> >>)

\* the engine has answered the message of a dialog whose id needs escapes,
\* through the sender id of that message
C14_Witness ==
    /\ reqs[1].request.body =
           json_dumps(JObj(<< <<"dialogId", JStr("a\"b")>>,
                              <<"callback", JStr("http://gw/v1/")>>,
                              <<"projectContext", ProjectContext("p\\q", "r/s")>>,
                              <<"text", JStr("Hello.")>> >>))
    /\ Len(reqs[1].msgs) = 1
    /\ out.fn = "send_text_message"
    /\ out.args.recipient_id = reqs[1].msgs[1].sender_id
    /\ out.pc = "done"
    /\ Len(gateway.requests) = 1

StrippedTexts == {<<"Hello.", "Hello">>, <<"Hello..", "Hello.">>, <<"Hello", "Hello">>}

\* the event of request i has the text t
EventTextIs(i, t) ==
    /\ json_loads(reqs[i].request.body).ok
    /\ IsObj(json_loads(reqs[i].request.body).val)
    /\ Has(json_loads(reqs[i].request.body).val, "text")
    /\ Get(json_loads(reqs[i].request.body).val, "text") = JStr(t)

\* C17: the text delivered for a /message webhook is the event's text
\* without its last character when that is a period ("Hello." gives "Hello",
\* "Hello.." gives "Hello."), and the event's text otherwise.
C17_OnePeriodStripped ==
    \A i \in Reqs, row \in StrippedTexts :
        (/\ reqs[i].request.ep = "/message"
         /\ PassesGates(reqs[i].request)
         /\ EventTextIs(i, row[1])) =>
            /\ reqs[i].proc \in {"delivering", "done"} => Len(reqs[i].msgs) = 1
            /\ \A k \in 1..Len(reqs[i].msgs) : reqs[i].msgs[k].text = row[2]

\* the message of a /message webhook with the text "Hello.." was delivered
C17_Witness ==
    \E i \in Reqs :
        /\ reqs[i].request.ep = "/message"
        /\ EventTextIs(i, "Hello..")
        /\ reqs[i].proc = "done"
        /\ Len(reqs[i].msgs) = 1
        /\ reqs[i].msgs[1].text = "Hello."

(***************************************************************************)
(* C18 - requests share nothing but the configuration.                     *)
(***************************************************************************)
\* the two dialogs of the concurrent requests, each with the sender id
\* CPython makes of its dialogId and projectContext, and the base URL of
\* its callback
ConcDialogs ==
    {[ev |-> GoodEvent, base_url |-> "http://gw/v1", token |->
        "eyJkaWFsb2dJZCI6ICJkMSIsICJwcm9qZWN0Q29udGV4dCI6IHsicHJvamVjdFRva2VuIjogInAxIiwgInJlc2VsbGVyVG9rZW4iOiAicjEifX0="],
     [ev |-> OtherEvent, base_url |-> "http://gw2", token |->
        "eyJkaWFsb2dJZCI6ICJkMiIsICJwcm9qZWN0Q29udGV4dCI6IHsicHJvamVjdFRva2VuIjogInAyIiwgInJlc2VsbGVyVG9rZW4iOiAicjIifX0="]}

\* the messages of slot are those of a request of the dialog dlg: its
\* sender id, and a channel to its callback
OwnMessages(slot, dlg, proxy) ==
    \A k \in 1..Len(slot.msgs) :
        /\ slot.msgs[k].sender_id = dlg.token
        /\ slot.msgs[k].output_channel = [base_url |-> dlg.base_url, proxy |-> proxy]
        /\ slot.msgs[k].input_channel = "vier-cvg"

\* a step of the webhook side: the configuration stays, at most one
\* request moves, and after it every message is its own request's
OwnStateStep ==
    /\ config' = config
    /\ \A i, j \in Reqs : (i # j /\ reqs'[i] # reqs[i]) => reqs'[j] = reqs[j]
    /\ \A i \in Reqs, dlg \in ConcDialogs :
          (\E ep \in Endpoints : reqs'[i].request = GoodRequest(ep, dlg.ev)) =>
              OwnMessages(reqs'[i], dlg, config.proxy)

\* C18: under every interleaving of concurrent webhook requests, the
\* message of a request carries the sender id of that request's dialogId
\* and projectContext alone (the same for every event type of the dialog)
\* and a reply channel to that request's callback; no step changes the
\* configuration, nor the state of another request.
C18_RequestLocal == [][OwnStateStep]_vars

\* messages of two dialogs are being delivered at the same time
C18_Witness ==
    /\ reqs[1].request = GoodRequest("/message", GoodEvent)
    /\ reqs[2].request = GoodRequest("/inactivity", OtherEvent)
    /\ reqs[1].proc = "delivering"
    /\ reqs[2].proc = "delivering"
    /\ reqs[1].msgs[1].sender_id # reqs[2].msgs[1].sender_id
    /\ reqs[1].msgs[1].output_channel.base_url = "http://gw/v1"
    /\ reqs[2].msgs[1].output_channel.base_url = "http://gw2"

(***************************************************************************)
(* C19 - detached deliveries.                                              *)
(***************************************************************************)
\* a step of the webhook side, as the detached tasks see it: a request
\* that detaches its delivery queues it last, the task that starts is the
\* oldest one queued, and whatever a detached task does, the response of
\* its request stays what it was and no other request moves
DetachedStep ==
    /\ ready' # ready =>
          \/ \E i \in Reqs :
                /\ ready' = Append(ready, i)
                /\ reqs[i].handler = "idle"
                /\ reqs'[i].proc = "created"
          \/ /\ ready # <<>>
             /\ ready' = Tail(ready)
    /\ \A i \in Reqs :
          (reqs[i].proc = "created" /\ reqs'[i].proc # "created") =>
              /\ ready # <<>>
              /\ i = Head(ready)
              /\ reqs'[i].proc \in {"delivering", "failed"}
    /\ \A i \in Reqs :
          (reqs[i].detached /\ reqs'[i].handler # "idle") =>
              /\ reqs'[i].handler = "returned"
              /\ reqs'[i].resp = reqs[i].resp
              /\ reqs'[i].resp = ResponseEmpty(204)
              /\ \A j \in Reqs \ {i} : reqs'[i] # reqs[i] => reqs'[j] = reqs[j]

FollowUpTexts == {"/cvg_outbound_success", "/cvg_outbound_failure", "/cvg_refer_failure"}

\* a step of the output channel: a message that reaches the engine is one
\* of the follow-ups, with the handler's recipient_id as sender, the
\* channel name, the handler's result as metadata and the handler's own
\* channel to reply to, and the handler then waits for on_message; a
\* handler that has passed a message on is over only after that wait
FollowUpStep ==
    /\ inbox' # inbox /\ inbox' # <<>> =>
          /\ Len(inbox') = 1
          /\ out'.fn \in {"handle_bridge_result", "_handle_refer_result"}
          /\ out'.pc = "on_message"
          /\ inbox'[1].text \in FollowUpTexts
          /\ inbox'[1].sender_id = out'.args.recipient_id
          /\ inbox'[1].input_channel = "vier-cvg"
          /\ inbox'[1].metadata = JObj(<< <<"cvg_body", out'.args.result>> >>)
          /\ inbox'[1].output_channel = out'.self
    /\ (inbox' # <<>> /\ out'.pc \in {"done", "raised"}) =>
          out.pc \in {"on_message", "done", "raised"}

====
